---- MODULE Spec2Model ----
(***************************************************************************)
(* Fund_manager: a Streamlit page (src/app.py) over six cached data-access *)
(* functions.  The module models                                           *)
(*   - the cache layer: the six st.cache_data functions, their TTLs, the   *)
(*     clock and the clearing of the fund-listing cache (SpecCache);       *)
(*   - one top-to-bottom pass of the page script, section by section       *)
(*     (Spec);                                                             *)
(*   - the NAV look-back arithmetic of the detail view (SpecNav).          *)
(***************************************************************************)
EXTENDS Integers, Sequences, FiniteSets, TLC

\* ------------------------------------------------------------------ bounds

\* Data-access calls made in one behaviour of SpecCache.
MaxCalls == 2

\* Rows of a NAV history given to SpecNav.
MaxPoints == 4

\* Rows of the cached NAV history of SpecCmp.
MaxCmpRows == 3

\* ------------------------------------------------------------ cache layer

VARIABLES
    now,        \* the clock st.cache_data reads, in seconds
    cache,      \* st.cache_data's store: key -> [value, at]
    ret,        \* what the latest data-access call did and gave its caller
    ncalls,     \* data-access calls made so far (SpecCache)
    cleared,    \* the keys the latest listing read's refresh removed
    pc,                       \* the section the page script is at
    selected_type,            \* the category filter's value
    refresh_fund_btn,         \* whether the refresh button started this pass
    fund_data,                \* the listing read by this pass
    selected_fund_shortname,  \* the fund of the detail view
    nav_report_df,            \* the NAV history the detail view read
    nav_view,                 \* what the NAV detail view computed and showed
    funds_view,               \* what the fund-vs-fund comparison did
    indices_view,             \* what the fund-vs-index comparison did
    shown,                    \* section -> what it rendered in this pass
    calls                     \* the data-access calls of this pass, in order

\* pd.DataFrame(): a table without rows.
Empty == <<>>

\* ttl= of get_fund_listing_cached.
TTL_LISTING == 60 * 30

\* The NAV history kept for the index history's two hours.
TTL_NAV_two_hours == 60 * 60 * 2

\* ttl= of get_fund_nav_report_cached.
TTL_NAV == 60 * 60 * 4

\* ttl= of the three holdings functions, and of get_market_index_history_cached.
TTL_HOLDINGS == 60 * 60 * 12
TTL_INDEX == 60 * 60 * 2

\* The ttl= argument of each function's st.cache_data decorator.
TTL(fn) ==
    CASE fn = "get_fund_listing_cached" -> TTL_LISTING
      [] fn = "get_fund_nav_report_cached" -> TTL_NAV
      [] fn = "get_fund_top_holdings_cached" -> TTL_HOLDINGS
      [] fn = "get_fund_industry_holdings_cached" -> TTL_HOLDINGS
      [] fn = "get_fund_asset_holdings_cached" -> TTL_HOLDINGS
      [] fn = "get_market_index_history_cached" -> TTL_INDEX

\* The values of fund_type_options.
fund_type_options == {"", "STOCK", "BOND", "BALANCED"}

\* Fund short codes the provider knows.
Funds == {"F1", "F2"}

\* market_indices, cut to two symbols.
market_indices == {"VNINDEX", "VN30"}

\* Calendar days offered by the date pickers and carried by the data.
Dates == 1..4

\* strftime('%Y-%m-%d'): the text of a date, one text per date.
strftime(d) == ToString(d)

\* ----------------------------------------------------- the provider's data

\* An upstream call either fails while the client is built, fails in the
\* request, or answers with a table.
CtorRaise == [ctor |-> "raise", fetch |-> "none", df |-> Empty]
FetchRaise == [ctor |-> "ok", fetch |-> "raise", df |-> Empty]
Answer(df) == [ctor |-> "ok", fetch |-> "ok", df |-> df]
Outcomes(tables) == {CtorRaise, FetchRaise} \cup {Answer(df) : df \in tables}

\* Numbers as the page shows them: an exact fraction, or what a float
\* division by zero leaves (inf, -inf, NaN).  NaN is also pandas' mark of
\* a missing cell.
RECURSIVE GCD(_, _)
GCD(a, b) == IF b = 0 THEN a ELSE GCD(b, a % b)
Abs(x) == IF x < 0 THEN -x ELSE x
Frac(n, d) ==
    LET g == GCD(Abs(n), Abs(d))
        sgn == IF d < 0 THEN -1 ELSE 1
    IN [kind |-> "num", num |-> sgn * (n \div g), den |-> sgn * (d \div g)]
Num(n) == [kind |-> "num", num |-> n, den |-> 1]
NaN == [kind |-> "nan", num |-> 0, den |-> 0]
Inf == [kind |-> "inf", num |-> 1, den |-> 0]
NegInf == [kind |-> "inf", num |-> -1, den |-> 0]

\* A row of fund.listing: the code, the name, one of the pct_cols and the
\* management fee, as numbers or missing.
FundRow(code) ==
    [short_name |-> code, name |-> code,
     nav_change_12m |-> IF code = "F1" THEN Frac(5, 2) ELSE NaN,
     management_fee |-> IF code = "F1" THEN NaN ELSE Num(0)]

\* fund.listing(fund_type): the funds of that category, or no rows.
ProviderListing(fund_type) ==
    IF fund_type = "" THEN {Empty, <<FundRow("F1"), FundRow("F2")>>}
    ELSE IF fund_type = "STOCK" THEN {Empty, <<FundRow("F1")>>}
    ELSE IF fund_type = "BOND" THEN {Empty, <<FundRow("F2")>>}
    ELSE {Empty}

NavRow(d, v) == [date |-> d, nav_per_unit |-> v]

\* fund.details.nav_report(symbol): rows in the provider's order.
ProviderNav(symbol) ==
    IF symbol = "F1"
    THEN {<<NavRow(1, 10), NavRow(2, 11), NavRow(4, 12)>>, <<NavRow(3, 10)>>}
    ELSE {<<NavRow(3, 5), NavRow(2, 0), NavRow(4, 6)>>}

\* fund.details.top_holding / industry_holding / asset_holding.
ProviderTop(symbol) ==
    {<<[stock_code |-> "AAA", industry |-> "Bank", net_asset_percent |-> 10]>>}
ProviderIndustry(symbol) ==
    {<<[industry |-> "Bank", net_asset_percent |-> 10]>>}
ProviderAsset(symbol) ==
    {<<[asset_type |-> "Stock", asset_percent |-> 90]>>}

\* quote.history(start, end): closing prices of the days start..end.
IndexRow(d, v) == [time |-> d, close |-> v]
ProviderIndex(index_symbol, start, end) ==
    LET all == IF index_symbol = "VNINDEX"
               THEN <<IndexRow(1, 100), IndexRow(2, 110), IndexRow(3, 121)>>
               ELSE <<IndexRow(2, 0), IndexRow(3, 50), IndexRow(4, 60)>>
    IN {SelectSeq(all, LAMBDA r : start <= r.time /\ r.time <= end)}

\* --------------------------------------------------- the cached functions

\* What running a function's body gives: an exception or a returned table.
Raise == [raised |-> TRUE, value |-> Empty]
Return(df) == [raised |-> FALSE, value |-> df]

\* round(x * 100) for a fraction x, halves to the even neighbour: the
\* hundredths f"{x:.2f}" prints.
hundredths(x) ==
    LET n == x.num * 100
        q == n \div x.den
        r == n % x.den
    IN IF 2 * r < x.den THEN q
       ELSE IF 2 * r > x.den THEN q + 1
       ELSE IF q % 2 = 0 THEN q ELSE q + 1

\* The text of a cell: "x.xx%" with its hundredths, or the dash.
PctText(h) == [text |-> "pct", hundredths |-> h]
Dash == [text |-> "dash", hundredths |-> 0]

\* A missing value printed as 0.00%.
fmt_pct_cell_zero_for_missing(x) ==
    IF x.kind = "nan" THEN PctText(0) ELSE PctText(hundredths(x))

\* lambda x: f"{x:.2f}%" if not pd.isna(x) else "—"
fmt_pct_cell(x) == IF x.kind = "nan" THEN Dash ELSE PctText(hundredths(x))

\* get_fund_listing_cached: Fund() is built before the try; the percentage
\* columns and the management fee of a non-empty listing become text.
get_fund_listing_cached(fund_type, o) ==
    IF o.ctor = "raise" THEN Raise
    ELSE IF o.fetch = "raise" THEN Return(Empty)
    ELSE IF o.df = Empty THEN Return(o.df)
    ELSE Return([i \in DOMAIN o.df |->
                   [o.df[i] EXCEPT !.nav_change_12m = fmt_pct_cell(@),
                                   !.management_fee = fmt_pct_cell(@)]])

\* get_fund_nav_report_cached: Fund() is built before the try.
get_fund_nav_report_cached(symbol, o) ==
    IF o.ctor = "raise" THEN Raise
    ELSE IF o.fetch = "raise" THEN Return(Empty)
    ELSE Return(o.df)

\* get_fund_top_holdings_cached: Fund() is built before the try.
get_fund_top_holdings_cached(symbol, o) ==
    IF o.ctor = "raise" THEN Raise
    ELSE IF o.fetch = "raise" THEN Return(Empty)
    ELSE Return(o.df)

\* get_fund_industry_holdings_cached: Fund() is built before the try.
get_fund_industry_holdings_cached(symbol, o) ==
    IF o.ctor = "raise" THEN Raise
    ELSE IF o.fetch = "raise" THEN Return(Empty)
    ELSE Return(o.df)

\* get_fund_asset_holdings_cached: Fund() is built before the try; a
\* non-empty table gets a short_name column.
get_fund_asset_holdings_cached(symbol, o) ==
    IF o.ctor = "raise" THEN Raise
    ELSE IF o.fetch = "raise" THEN Return(Empty)
    ELSE IF o.df # Empty
    THEN Return([i \in DOMAIN o.df |->
                   [asset_type |-> o.df[i].asset_type,
                    asset_percent |-> o.df[i].asset_percent,
                    short_name |-> symbol]])
    ELSE Return(o.df)

\* get_market_index_history_cached: Quote() is built inside the try; a
\* non-empty table is cut to time, close_price and symbol.
get_market_index_history_cached(index_symbol, o) ==
    IF o.ctor = "raise" \/ o.fetch = "raise" THEN Return(Empty)
    ELSE IF o.df # Empty
    THEN Return([i \in DOMAIN o.df |->
                   [time |-> o.df[i].time,
                    close_price |-> o.df[i].close,
                    symbol |-> index_symbol]])
    ELSE Return(o.df)

ListingKey(fund_type) == <<"get_fund_listing_cached", <<fund_type>>>>
NavKey(symbol) == <<"get_fund_nav_report_cached", <<symbol>>>>
TopKey(symbol) == <<"get_fund_top_holdings_cached", <<symbol>>>>
IndustryKey(symbol) == <<"get_fund_industry_holdings_cached", <<symbol>>>>
AssetKey(symbol) == <<"get_fund_asset_holdings_cached", <<symbol>>>>
\* The index history keyed by its symbol alone.
IndexKey_symbol_only(index_symbol, start, end) ==
    <<"get_market_index_history_cached", <<index_symbol>>>>

\* The key of a call is the function and all of its arguments.
IndexKey(index_symbol, start, end) ==
    <<"get_market_index_history_cached", <<index_symbol, strftime(start), strftime(end)>>>>

\* The body of the function a key names, run on the upstream outcome o.
Body(key, o) ==
    CASE key[1] = "get_fund_listing_cached" -> get_fund_listing_cached(key[2][1], o)
      [] key[1] = "get_fund_nav_report_cached" -> get_fund_nav_report_cached(key[2][1], o)
      [] key[1] = "get_fund_top_holdings_cached" -> get_fund_top_holdings_cached(key[2][1], o)
      [] key[1] = "get_fund_industry_holdings_cached" -> get_fund_industry_holdings_cached(key[2][1], o)
      [] key[1] = "get_fund_asset_holdings_cached" -> get_fund_asset_holdings_cached(key[2][1], o)
      [] key[1] = "get_market_index_history_cached" -> get_market_index_history_cached(key[2][1], o)

\* A stored entry younger than the function's ttl.
Fresh(c, t, key) == key \in DOMAIN c /\ t - c[key].at < TTL(key[1])

\* st.cache_data around a function: a fresh entry is returned without
\* running the body; otherwise the body runs and what it RETURNS is stored
\* with the current time; an exception leaving the body stores nothing.
cache_data(c, t, key, o) ==
    IF Fresh(c, t, key)
    THEN [cache |-> c,
          ret |-> [key |-> key, upstream |-> FALSE, outcome |-> "hit",
                   raised |-> FALSE, value |-> c[key].value]]
    ELSE LET b == Body(key, o)
             how == IF o.ctor = "raise" THEN "ctor_raise"
                    ELSE IF o.fetch = "raise" THEN "fetch_raise" ELSE "ok"
         IN IF b.raised
            THEN [cache |-> c,
                  ret |-> [key |-> key, upstream |-> TRUE, outcome |-> how,
                           raised |-> TRUE, value |-> Empty]]
            ELSE [cache |-> (key :> [value |-> b.value, at |-> t]) @@ c,
                  ret |-> [key |-> key, upstream |-> TRUE, outcome |-> how,
                           raised |-> FALSE, value |-> b.value]]

\* st.cache_data.clear(): the entries of every cached function go.
clear_every_function(c) == <<>>

\* get_fund_listing_cached.clear(): every entry of that one function goes.
clear_listing(c) ==
    LET keep == {k \in DOMAIN c : k[1] # "get_fund_listing_cached"}
    IN [k \in keep |-> c[k]]

\* if refresh_fund_btn: get_fund_listing_cached.clear()
\* fund_data = get_fund_listing_cached(fund_type=selected_type)
read_listing(c, t, refresh, fund_type, o) ==
    LET c0 == IF refresh THEN clear_listing(c) ELSE c
        r == cache_data(c0, t, ListingKey(fund_type), o)
    IN [cache |-> r.cache, ret |-> r.ret, cleared |-> DOMAIN c \ DOMAIN c0]

NoCall == [key |-> <<"", <<>>>>, upstream |-> FALSE, outcome |-> "none",
           raised |-> FALSE, value |-> Empty]

\* ------------------------------------------------------- derived metrics

\* a / b on floats: no exception, b = 0 gives inf, -inf or NaN.
FloatDiv(a, b) ==
    IF b # 0 THEN Frac(a, b)
    ELSE IF a = 0 THEN NaN ELSE IF a > 0 THEN Inf ELSE NegInf

\* x * k for an integer k > 0.
FloatTimes(x, k) == IF x.kind = "num" THEN Frac(x.num * k, x.den) ELSE x

\* x / y on floats that may already be inf or NaN.
NumDiv(x, y) ==
    IF x.kind = "nan" \/ y.kind = "nan" THEN NaN
    ELSE IF x.kind = "inf" THEN
        IF y.kind = "inf" THEN NaN
        ELSE IF (y.num >= 0) = (x.num > 0) THEN Inf ELSE NegInf
    ELSE IF y.kind = "inf" THEN Num(0)
    ELSE IF y.num # 0 THEN Frac(x.num * y.den, x.den * y.num)
    ELSE IF x.num = 0 THEN NaN ELSE IF x.num > 0 THEN Inf ELSE NegInf

\* The series divided by its last value.
rebase_on_last(xs) == [i \in DOMAIN xs |-> FloatTimes(NumDiv(xs[i], xs[Len(xs)]), 100)]

\* (series / series.iloc[0]) * 100
rebase(xs) == [i \in DOMAIN xs |-> FloatTimes(NumDiv(xs[i], xs[1]), 100)]

\* The growth without its zero guard.
growth_pct_unguarded(latest, first) == FloatTimes(FloatDiv(latest - first, first), 100)

\* ((latest - first) / first) * 100 if first != 0 else 0
growth_pct(latest, first) ==
    IF first # 0 THEN FloatTimes(FloatDiv(latest - first, first), 100) ELSE Num(0)

\* The table left in the provider's order.
sort_values_skipped(df) == df

\* df.sort_values('date').reset_index(drop=True)
sort_values_date(df) == SortSeq(df, LAMBDA a, b : a.date < b.date)

\* df.sort_values('time').reset_index(drop=True)
sort_values_time(df) == SortSeq(df, LAMBDA a, b : a.time < b.time)

\* The last position holding the least value.
idxmin_last(xs) ==
    CHOOSE i \in DOMAIN xs :
        /\ \A j \in DOMAIN xs : xs[i] <= xs[j]
        /\ \A j \in DOMAIN xs : j > i => xs[j] > xs[i]

\* Series.idxmin(): the first position holding the least value.
idxmin(xs) ==
    CHOOSE i \in DOMAIN xs :
        /\ \A j \in DOMAIN xs : xs[i] <= xs[j]
        /\ \A j \in DOMAIN xs : j < i => xs[j] > xs[i]

\* Only a table without rows counts as too short.
too_short_when_empty(df) == Len(df) < 1

\* len(df) < 2
too_short(df) == Len(df) < 2

\* The rows after the one at start_idx.
iloc_after(df, start_idx) == SubSeq(df, start_idx + 1, Len(df))

\* df.iloc[start_idx:]: the rows from position start_idx to the last.
iloc_from(df, start_idx) == SubSeq(df, start_idx, Len(df))

\* time_periods, the numeric look-backs in days; "Tat ca" (all) has none.
time_periods ==
    [p \in {"3 thang", "6 thang", "12 thang", "36 thang"} |->
        CASE p = "3 thang" -> 90
          [] p = "6 thang" -> 180
          [] p = "12 thang" -> 365
          [] p = "36 thang" -> 3 * 365]
period_options == DOMAIN time_periods \cup {"Tat ca"}

NoNavView ==
    [msg |-> "", nav_df_sorted |-> Empty, period_selection |-> "",
     start_idx |-> 0, selected_growth_pct |-> Num(0), selected_data |-> Empty]

\* The NAV detail view below the fetch: sort, the two-point check, the
\* growth over the whole series, the look-back window and its growth.
\* Positions are 1-based here and 0-based in the code.
nav_detail(df, period_selection) ==
    IF df = Empty
    THEN [NoNavView EXCEPT !.msg = "info_no_data"]
    ELSE LET nav_df_sorted == sort_values_date(df)
         IN IF too_short(nav_df_sorted)
            THEN [NoNavView EXCEPT !.msg = "info_short", !.nav_df_sorted = nav_df_sorted]
            ELSE LET latest_nav_all == nav_df_sorted[Len(nav_df_sorted)].nav_per_unit
                     first_nav_all == nav_df_sorted[1].nav_per_unit
                     total_growth_pct_all == growth_pct(latest_nav_all, first_nav_all)
                 IN IF period_selection = "Tat ca"
                    THEN [msg |-> "chart", nav_df_sorted |-> nav_df_sorted,
                          period_selection |-> period_selection, start_idx |-> 1,
                          selected_growth_pct |-> total_growth_pct_all,
                          selected_data |-> nav_df_sorted]
                    ELSE LET days_needed == time_periods[period_selection]
                             latest_date == nav_df_sorted[Len(nav_df_sorted)].date
                             target_start_date == latest_date - days_needed
                             date_diffs == [i \in DOMAIN nav_df_sorted |->
                                              Abs(nav_df_sorted[i].date - target_start_date)]
                             start_idx == idxmin(date_diffs)
                             selected_data == iloc_from(nav_df_sorted, start_idx)
                             selected_start_nav == selected_data[1].nav_per_unit
                             selected_end_nav == selected_data[Len(selected_data)].nav_per_unit
                         IN [msg |-> "chart", nav_df_sorted |-> nav_df_sorted,
                             period_selection |-> period_selection,
                             start_idx |-> start_idx,
                             selected_growth_pct |->
                                 IF selected_data # Empty
                                 THEN growth_pct(selected_end_nav, selected_start_nav)
                                 ELSE Num(0),
                             selected_data |-> selected_data]

\* The views run whatever the two dates are.
date_range_unchecked(start_date, end_date) == FALSE

\* start_date > end_date: the comparison view stops at its validation message.
date_range_invalid(start_date, end_date) == start_date > end_date

\* df[(df['date'] >= start) & (df['date'] <= end)]
in_range_date(df, start_date, end_date) ==
    SelectSeq(df, LAMBDA r : r.date >= start_date /\ r.date <= end_date)

\* df[(df['time'] >= start) & (df['time'] <= end)]
in_range_time(df, start_date, end_date) ==
    SelectSeq(df, LAMBDA r : r.time >= start_date /\ r.time <= end_date)

\* (nav_per_unit / nav_per_unit.iloc[0]) * 100, kept with the date column.
cumulative_return_nav(df) ==
    LET r == rebase([i \in DOMAIN df |-> Num(df[i].nav_per_unit)])
    IN [i \in DOMAIN df |-> [date |-> df[i].date, value |-> r[i]]]

\* (close_price / close_price.iloc[0]) * 100, time renamed to date.
cumulative_return_index(df) ==
    LET r == rebase([i \in DOMAIN df |-> Num(df[i].close_price)])
    IN [i \in DOMAIN df |-> [date |-> df[i].time, value |-> r[i]]]

\* One element of comparison_data_list: the column's symbol and its rows.
Column(code, rows) == [code |-> code, rows |-> rows]

DatesOf(rows) == {rows[i].date : i \in DOMAIN rows}
ValueAt(rows, d) ==
    IF d \in DatesOf(rows)
    THEN rows[CHOOSE i \in DOMAIN rows : rows[i].date = d].value
    ELSE NaN

\* pd.merge(merged_df, df, on='date', how='outer'): the rows of the left
\* table, then the dates only the right one has; a cell without a source
\* row is NaN.
pd_merge_outer(merged, col) ==
    LET left == [i \in DOMAIN merged |->
                    [date |-> merged[i].date,
                     vals |-> (col.code :> ValueAt(col.rows, merged[i].date)) @@ merged[i].vals]]
        known == {merged[i].date : i \in DOMAIN merged}
        fresh == SelectSeq(col.rows, LAMBDA r : r.date \notin known)
        cols == IF merged = <<>> THEN {} ELSE DOMAIN merged[1].vals
        right == [i \in DOMAIN fresh |->
                    [date |-> fresh[i].date,
                     vals |-> (col.code :> fresh[i].value) @@ [c \in cols |-> NaN]]]
    IN left \o right

RECURSIVE merge_all(_, _)
merge_all(merged, rest) ==
    IF rest = <<>> THEN merged
    ELSE merge_all(pd_merge_outer(merged, Head(rest)), Tail(rest))

\* The merge of a comparison list: the first column is the start, each
\* later one is joined on date, the result is sorted by date.
merge_comparison(comparison_data_list) ==
    LET first == comparison_data_list[1]
        merged0 == [i \in DOMAIN first.rows |->
                      [date |-> first.rows[i].date,
                       vals |-> (first.code :> first.rows[i].value)]]
    IN sort_values_date(merge_all(merged0, Tail(comparison_data_list)))

\* merged_df_with_index.dropna(subset=date_cols, how='all')
dropna_all(merged) ==
    SelectSeq(merged, LAMBDA r : \E c \in DOMAIN r.vals : r.vals[c] # NaN)

\* ---------------------------------------------------------------- the page

vars == <<now, cache, ret, ncalls, cleared, pc, selected_type, refresh_fund_btn, fund_data,
          selected_fund_shortname, nav_report_df, nav_view, funds_view,
          indices_view, shown, calls>>

\* The sections of the page, top to bottom.
Sections == <<"listing", "nav", "top", "industry", "asset", "funds", "indices">>
NothingShown == [s \in {Sections[i] : i \in DOMAIN Sections} \cup {"page"} |-> ""]

NoView ==
    [msg |-> "", start_date |-> 0, end_date |-> 0, funds |-> <<>>, indices |-> <<>>,
     comparison_data_list |-> <<>>, fund_with_insufficient_data |-> <<>>,
     index_with_insufficient_data |-> <<>>, merged_df |-> <<>>]

\* The values the user gives the page's widgets.
PageFundTypes == {"", "STOCK"}
DateRanges == {<<1, 4>>, <<3, 1>>}
PageIndices == {<<>>, <<"VN30">>}

\* fund_data['short_name'].tolist()
short_names(df) == [i \in DOMAIN df |-> df[i].short_name]

\* What a multiselect returns here: nothing chosen, or every option.
Selections(options) == {<<>>, options}

Logged(section, r) ==
    [section |-> section, key |-> r.key, upstream |-> r.upstream, outcome |-> r.outcome]

Init ==
    /\ now = 0
    /\ cache = <<>>
    /\ ret = NoCall
    /\ ncalls = 0
    /\ cleared = {}
    /\ pc = "idle"
    /\ selected_type = ""
    /\ refresh_fund_btn = FALSE
    /\ fund_data = Empty
    /\ selected_fund_shortname = ""
    /\ nav_report_df = Empty
    /\ nav_view = NoNavView
    /\ funds_view = NoView
    /\ indices_view = NoView
    /\ shown = NothingShown
    /\ calls = <<>>

\* A user interaction: the script runs again from the top with the
\* widgets' values; what the last pass drew is gone.
Rerun ==
    /\ pc = "idle"
    /\ \E t \in PageFundTypes, b \in BOOLEAN :
           /\ selected_type' = t
           /\ refresh_fund_btn' = b
    /\ pc' = "listing"
    /\ fund_data' = Empty
    /\ selected_fund_shortname' = ""
    /\ nav_report_df' = Empty
    /\ nav_view' = NoNavView
    /\ funds_view' = NoView
    /\ indices_view' = NoView
    /\ shown' = NothingShown
    /\ calls' = <<>>
    /\ UNCHANGED <<now, cache, ret, ncalls, cleared>>

\* except Exception as e: st.error(...) -- the rest of the try is skipped.
TopLevelExcept(section) ==
    /\ pc' = "done"
    /\ shown' = [shown EXCEPT !["page"] = "error"]

\* The refresh, the listing read, the table, and the detail view's fund selector.  With
\* an empty listing only the info line is drawn: the detail and both
\* comparison views live in the else branch.
ListingSection ==
    /\ pc = "listing"
    /\ \E o \in Outcomes(ProviderListing(selected_type)) :
         LET r == read_listing(cache, now, refresh_fund_btn, selected_type, o)
         IN /\ cache' = r.cache
            /\ ret' = r.ret
            /\ cleared' = r.cleared
            /\ calls' = Append(calls, Logged("listing", r.ret))
            /\ IF r.ret.raised
               THEN /\ TopLevelExcept("listing")
                    /\ UNCHANGED <<fund_data, selected_fund_shortname>>
               ELSE /\ fund_data' = r.ret.value
                    /\ IF r.ret.value = Empty
                       THEN /\ shown' = [shown EXCEPT !["listing"] = "info_empty"]
                            /\ pc' = "done"
                            /\ UNCHANGED selected_fund_shortname
                       ELSE /\ shown' = [shown EXCEPT !["listing"] = "table"]
                            /\ pc' = "nav"
                            /\ \E i \in DOMAIN r.ret.value :
                                   selected_fund_shortname' = r.ret.value[i].short_name
    /\ UNCHANGED <<now, ncalls, selected_type, refresh_fund_btn, nav_report_df,
                   nav_view, funds_view, indices_view>>

\* nav_report_df = get_fund_nav_report_cached(selected_fund_shortname)
NavFetch ==
    /\ pc = "nav"
    /\ \E o \in Outcomes(ProviderNav(selected_fund_shortname)) :
         LET r == cache_data(cache, now, NavKey(selected_fund_shortname), o)
         IN /\ cache' = r.cache
            /\ ret' = r.ret
            /\ calls' = Append(calls, Logged("nav", r.ret))
            /\ IF r.ret.raised
               THEN /\ TopLevelExcept("nav")
                    /\ UNCHANGED nav_report_df
               ELSE /\ nav_report_df' = r.ret.value
                    /\ pc' = "nav_view"
                    /\ UNCHANGED shown
    /\ UNCHANGED <<now, ncalls, cleared, selected_type, refresh_fund_btn, fund_data,
                   selected_fund_shortname, nav_view, funds_view, indices_view>>

\* The NAV detail view on the table just read.
NavDetailView ==
    /\ pc = "nav_view"
    /\ \E period_selection \in period_options :
           nav_view' = nav_detail(nav_report_df, period_selection)
    /\ shown' = [shown EXCEPT !["nav"] = nav_view'.msg]
    /\ pc' = "top"
    /\ UNCHANGED <<now, cache, ret, ncalls, cleared, selected_type, refresh_fund_btn, fund_data,
                   selected_fund_shortname, nav_report_df, funds_view, indices_view,
                   calls>>

\* One of the three holdings views: the read, then the table or the info line.
HoldingsSection(section, key, tables, next) ==
    /\ pc = section
    /\ \E o \in Outcomes(tables) :
         LET r == cache_data(cache, now, key, o)
         IN /\ cache' = r.cache
            /\ ret' = r.ret
            /\ calls' = Append(calls, Logged(section, r.ret))
            /\ IF r.ret.raised
               THEN TopLevelExcept(section)
               ELSE /\ shown' = [shown EXCEPT ![section] =
                                    IF r.ret.value = Empty THEN "info_empty" ELSE "table"]
                    /\ pc' = next
    /\ UNCHANGED <<now, ncalls, cleared, selected_type, refresh_fund_btn, fund_data,
                   selected_fund_shortname, nav_report_df, nav_view, funds_view,
                   indices_view>>

TopHoldingsSection ==
    HoldingsSection("top", TopKey(selected_fund_shortname),
                    ProviderTop(selected_fund_shortname), "industry")

IndustryHoldingsSection ==
    HoldingsSection("industry", IndustryKey(selected_fund_shortname),
                    ProviderIndustry(selected_fund_shortname), "asset")

AssetHoldingsSection ==
    HoldingsSection("asset", AssetKey(selected_fund_shortname),
                    ProviderAsset(selected_fund_shortname), "funds")

\* ----------------------------------------------------- the comparison views

\* What a loop over the selected symbols has built so far.
LoopStart(c, log) ==
    [cache |-> c, calls |-> log, ret |-> ret, comparison_data_list |-> <<>>,
     insufficient |-> <<>>]

\* A round whose except only warns: a fund whose read raised is put in
\* neither list.
fund_round_raise_unlisted(section, fund_code, o, start_date, end_date, acc) ==
    LET r == cache_data(acc.cache, now, NavKey(fund_code), o)
        log == Append(acc.calls, Logged(section, r.ret))
        nav_df == in_range_date(sort_values_date(r.ret.value), start_date, end_date)
    IN IF r.ret.raised
       THEN [acc EXCEPT !.cache = r.cache, !.calls = log, !.ret = r.ret]
       ELSE IF r.ret.value = Empty \/ too_short(nav_df)
       THEN [acc EXCEPT !.cache = r.cache, !.calls = log, !.ret = r.ret,
                        !.insufficient = Append(acc.insufficient, fund_code)]
       ELSE [acc EXCEPT !.cache = r.cache, !.calls = log, !.ret = r.ret,
                        !.comparison_data_list =
                            Append(acc.comparison_data_list,
                                   Column(fund_code, cumulative_return_nav(nav_df)))]

\* One round of a fund loop: the NAV read inside the try, the sort, the
\* date filter, the two-point check and the rebased column.  An exception
\* of the read is caught by the round's own except.
fund_round(section, fund_code, o, start_date, end_date, acc) ==
    LET r == cache_data(acc.cache, now, NavKey(fund_code), o)
        log == Append(acc.calls, Logged(section, r.ret))
        nav_df == in_range_date(sort_values_date(r.ret.value), start_date, end_date)
    IN IF r.ret.raised \/ r.ret.value = Empty \/ too_short(nav_df)
       THEN [acc EXCEPT !.cache = r.cache, !.calls = log, !.ret = r.ret,
                        !.insufficient = Append(acc.insufficient, fund_code)]
       ELSE [acc EXCEPT !.cache = r.cache, !.calls = log, !.ret = r.ret,
                        !.comparison_data_list =
                            Append(acc.comparison_data_list,
                                   Column(fund_code, cumulative_return_nav(nav_df)))]

\* One round of the index loop: the same steps on the index history, read
\* with the view's date range as arguments.
index_round(section, index_code, o, start_date, end_date, acc) ==
    LET r == cache_data(acc.cache, now, IndexKey(index_code, start_date, end_date), o)
        log == Append(acc.calls, Logged(section, r.ret))
        index_df == in_range_time(sort_values_time(r.ret.value), start_date, end_date)
    IN IF r.ret.raised \/ r.ret.value = Empty \/ too_short(index_df)
       THEN [acc EXCEPT !.cache = r.cache, !.calls = log, !.ret = r.ret,
                        !.insufficient = Append(acc.insufficient, index_code)]
       ELSE [acc EXCEPT !.cache = r.cache, !.calls = log, !.ret = r.ret,
                        !.comparison_data_list =
                            Append(acc.comparison_data_list,
                                   Column(index_code, cumulative_return_index(index_df)))]

\* for fund_code in selected_fund_codes: every selected fund gets its round.
RECURSIVE fund_loop(_, _, _, _, _, _)
fund_loop(section, codes, os, start_date, end_date, acc) ==
    IF codes = <<>> THEN acc
    ELSE fund_loop(section, Tail(codes), os, start_date, end_date,
                   fund_round(section, Head(codes), os[Head(codes)],
                              start_date, end_date, acc))

\* for index_code in selected_indices_for_comparison
RECURSIVE index_loop(_, _, _, _, _, _)
index_loop(section, codes, os, start_date, end_date, acc) ==
    IF codes = <<>> THEN acc
    ELSE index_loop(section, Tail(codes), os, start_date, end_date,
                    index_round(section, Head(codes), os[Head(codes)],
                                start_date, end_date, acc))

Range(seq) == {seq[i] : i \in DOMAIN seq}

\* One upstream outcome for each selected fund, should its read miss.
NavOutcomes(codes) ==
    {os \in [Range(codes) -> UNION {Outcomes(ProviderNav(f)) : f \in Funds}] :
        \A f \in Range(codes) : os[f] \in Outcomes(ProviderNav(f))}

IndexOutcomes(codes, start_date, end_date) ==
    {os \in [Range(codes) ->
                UNION {Outcomes(ProviderIndex(x, start_date, end_date)) : x \in market_indices}] :
        \A x \in Range(codes) : os[x] \in Outcomes(ProviderIndex(x, start_date, end_date))}

\* Section 5: fund against fund.
FundsView ==
    /\ pc = "funds"
    /\ \E selected \in Selections(short_names(fund_data)), range \in DateRanges :
         LET start_date_funds == range[1]
             end_date_funds == range[2]
         IN IF date_range_invalid(start_date_funds, end_date_funds)
            THEN /\ funds_view' = [NoView EXCEPT !.msg = "error_dates",
                                      !.start_date = start_date_funds,
                                      !.end_date = end_date_funds, !.funds = selected]
                 /\ UNCHANGED <<cache, ret, calls>>
            ELSE IF selected = <<>>
            THEN /\ funds_view' = [NoView EXCEPT !.msg = "info_select",
                                      !.start_date = start_date_funds,
                                      !.end_date = end_date_funds]
                 /\ UNCHANGED <<cache, ret, calls>>
            ELSE \E os \in NavOutcomes(selected) :
                   LET done == fund_loop("funds", selected, os, start_date_funds,
                                         end_date_funds, LoopStart(cache, calls))
                   IN /\ cache' = done.cache
                      /\ ret' = done.ret
                      /\ calls' = done.calls
                      /\ funds_view' =
                           [msg |-> IF done.comparison_data_list # <<>>
                                    THEN "chart" ELSE "info_none",
                            start_date |-> start_date_funds,
                            end_date |-> end_date_funds,
                            funds |-> selected,
                            indices |-> <<>>,
                            comparison_data_list |-> done.comparison_data_list,
                            fund_with_insufficient_data |-> done.insufficient,
                            index_with_insufficient_data |-> <<>>,
                            merged_df |-> IF done.comparison_data_list # <<>>
                                          THEN merge_comparison(done.comparison_data_list)
                                          ELSE <<>>]
    /\ shown' = [shown EXCEPT !["funds"] = funds_view'.msg]
    /\ pc' = "indices"
    /\ UNCHANGED <<now, ncalls, cleared, selected_type, refresh_fund_btn, fund_data,
                   selected_fund_shortname, nav_report_df, nav_view, indices_view>>

\* Section 6: funds against market indices.
IndicesView ==
    /\ pc = "indices"
    /\ \E selected \in Selections(short_names(fund_data)), indices \in PageIndices,
          range \in DateRanges :
         LET start_date_indices == range[1]
             end_date_indices == range[2]
         IN IF date_range_invalid(start_date_indices, end_date_indices)
            THEN /\ indices_view' = [NoView EXCEPT !.msg = "error_dates",
                                        !.start_date = start_date_indices,
                                        !.end_date = end_date_indices,
                                        !.funds = selected, !.indices = indices]
                 /\ UNCHANGED <<cache, ret, calls>>
            ELSE IF selected = <<>> /\ indices = <<>>
            THEN /\ indices_view' = [NoView EXCEPT !.msg = "info_select",
                                        !.start_date = start_date_indices,
                                        !.end_date = end_date_indices]
                 /\ UNCHANGED <<cache, ret, calls>>
            ELSE \E osf \in NavOutcomes(selected),
                    osi \in IndexOutcomes(indices, start_date_indices, end_date_indices) :
                   LET f == fund_loop("indices", selected, osf, start_date_indices,
                                      end_date_indices, LoopStart(cache, calls))
                       x == index_loop("indices", indices, osi, start_date_indices,
                                       end_date_indices,
                                       [f EXCEPT !.insufficient = <<>>])
                       merged == IF x.comparison_data_list # <<>>
                                 THEN dropna_all(merge_comparison(x.comparison_data_list))
                                 ELSE <<>>
                   IN /\ cache' = x.cache
                      /\ ret' = x.ret
                      /\ calls' = x.calls
                      /\ indices_view' =
                           [msg |-> IF x.comparison_data_list = <<>> THEN "info_none"
                                    ELSE IF merged = <<>> THEN "warning_none"
                                    ELSE "chart",
                            start_date |-> start_date_indices,
                            end_date |-> end_date_indices,
                            funds |-> selected,
                            indices |-> indices,
                            comparison_data_list |-> x.comparison_data_list,
                            fund_with_insufficient_data |-> f.insufficient,
                            index_with_insufficient_data |-> x.insufficient,
                            merged_df |-> merged]
    /\ shown' = [shown EXCEPT !["indices"] = indices_view'.msg]
    /\ pc' = "done"
    /\ UNCHANGED <<now, ncalls, cleared, selected_type, refresh_fund_btn, fund_data,
                   selected_fund_shortname, nav_report_df, nav_view, funds_view>>

Next ==
    \/ Rerun
    \/ ListingSection
    \/ NavFetch
    \/ NavDetailView
    \/ TopHoldingsSection
    \/ IndustryHoldingsSection
    \/ AssetHoldingsSection
    \/ FundsView
    \/ IndicesView

Spec == Init /\ [][Next]_vars

\* --------------------------------------------- the cache layer over time

\* What the page part of the state is while only the cache layer runs.
PageIdle ==
    /\ pc = "idle"
    /\ selected_type = ""
    /\ fund_data = Empty
    /\ selected_fund_shortname = ""
    /\ nav_report_df = Empty
    /\ nav_view = NoNavView
    /\ funds_view = NoView
    /\ indices_view = NoView
    /\ shown = NothingShown
    /\ calls = <<>>

pagevars == <<pc, selected_type, fund_data, selected_fund_shortname, nav_report_df,
              nav_view, funds_view, indices_view, shown, calls>>

InitCache ==
    /\ now = 0
    /\ cache = <<>>
    /\ ret = NoCall
    /\ ncalls = 0
    /\ cleared = {}
    /\ refresh_fund_btn = FALSE
    /\ PageIdle

\* One call of a cached function with the upstream outcome o.
Call(key, o) ==
    /\ ncalls < MaxCalls
    /\ LET r == cache_data(cache, now, key, o)
       IN /\ cache' = r.cache
          /\ ret' = r.ret
    /\ ncalls' = ncalls + 1
    /\ UNCHANGED <<now, cleared, refresh_fund_btn, pagevars>>

\* The arguments the calls of SpecCache are made with.
CacheFundTypes == {"", "STOCK"}
CacheSymbols == {"F1", "F2"}
CacheHoldingSymbols == {"F1"}
CacheIndexArgs == {<<"VNINDEX", 1, 3>>, <<"VNINDEX", 2, 3>>, <<"VN30", 2, 4>>}

\* The page's one call site of the listing: the refresh comes first.
Call_get_fund_listing ==
    /\ ncalls < MaxCalls
    /\ \E fund_type \in CacheFundTypes, b \in BOOLEAN :
         \E o \in Outcomes(ProviderListing(fund_type)) :
            LET r == read_listing(cache, now, b, fund_type, o)
            IN /\ cache' = r.cache
               /\ ret' = r.ret
               /\ cleared' = r.cleared
               /\ refresh_fund_btn' = b
    /\ ncalls' = ncalls + 1
    /\ UNCHANGED <<now, pagevars>>

Call_get_fund_nav_report ==
    \E symbol \in CacheSymbols :
        \E o \in Outcomes(ProviderNav(symbol)) : Call(NavKey(symbol), o)

Call_get_fund_top_holdings ==
    \E symbol \in CacheHoldingSymbols :
        \E o \in Outcomes(ProviderTop(symbol)) : Call(TopKey(symbol), o)

Call_get_fund_industry_holdings ==
    \E symbol \in CacheHoldingSymbols :
        \E o \in Outcomes(ProviderIndustry(symbol)) : Call(IndustryKey(symbol), o)

Call_get_fund_asset_holdings ==
    \E symbol \in CacheHoldingSymbols :
        \E o \in Outcomes(ProviderAsset(symbol)) : Call(AssetKey(symbol), o)

Call_get_market_index_history ==
    \E a \in CacheIndexArgs :
        \E o \in Outcomes(ProviderIndex(a[1], a[2], a[3])) :
            Call(IndexKey(a[1], a[2], a[3]), o)

\* The instants the clock is read at: just after the start, and the
\* length of each ttl.
Instants == {1, TTL_LISTING, TTL_INDEX, TTL_NAV, TTL_HOLDINGS}

\* Time passes between two calls.
Tick ==
    /\ \E t \in Instants : now < t /\ now' = t
    /\ UNCHANGED <<cache, ret, ncalls, cleared, refresh_fund_btn, pagevars>>

NextCache ==
    \/ Call_get_fund_listing
    \/ Call_get_fund_nav_report
    \/ Call_get_fund_top_holdings
    \/ Call_get_fund_industry_holdings
    \/ Call_get_fund_asset_holdings
    \/ Call_get_market_index_history
    \/ Tick

SpecCache == InitCache /\ [][NextCache]_vars

\* ------------------------------------------------- the NAV detail view alone

\* The dates and values the NAV histories of SpecNav are made of.
NavDates == {0, 10, 20, 100, 200}
NavValues == {0, 10, 12}

Min(S) == CHOOSE x \in S : \A y \in S : x <= y
RECURSIVE AscSeq(_)
AscSeq(S) == IF S = {} THEN <<>> ELSE <<Min(S)>> \o AscSeq(S \ {Min(S)})
Reverse(seq) == [i \in DOMAIN seq |-> seq[Len(seq) + 1 - i]]

\* Every history of at most MaxPoints rows with distinct dates, in
\* ascending or in descending order of date.
NavInputs ==
    UNION {UNION {LET asc == [i \in 1..Cardinality(D) |->
                                NavRow(AscSeq(D)[i], f[AscSeq(D)[i]])]
                  IN {asc, Reverse(asc)} : f \in [D -> NavValues]} :
           D \in {D \in SUBSET NavDates : Cardinality(D) <= MaxPoints}}

InitNav ==
    /\ now = 0
    /\ cache = <<>>
    /\ ret = NoCall
    /\ ncalls = 0
    /\ cleared = {}
    /\ pc = "nav_view"
    /\ selected_type = ""
    /\ refresh_fund_btn = FALSE
    /\ fund_data = get_fund_listing_cached("STOCK", Answer(<<FundRow("F1")>>)).value
    /\ selected_fund_shortname = "F1"
    /\ nav_report_df \in NavInputs
    /\ nav_view = NoNavView
    /\ funds_view = NoView
    /\ indices_view = NoView
    /\ shown = [NothingShown EXCEPT !["listing"] = "table"]
    /\ calls = <<>>

NextNav == NavDetailView

SpecNav == InitNav /\ [][NextNav]_vars

\* ------------------------------- the views on tables served from the cache

\* The dates of the cached histories; the valid range of DateRanges has
\* days 1 and 4 as its ends, days 0 and 5 lie outside it.
CmpDates == {0, 1, 2, 4, 5}

\* The value a history has on day d: 0, or 10 + d.
CmpValue(d, nonzero) == IF nonzero THEN 10 + d ELSE 0

\* Every NAV history of at most MaxCmpRows rows with distinct dates, in
\* ascending or in descending order of date.
CmpNavTables ==
    UNION {UNION {LET asc == [i \in 1..Cardinality(D) |->
                                NavRow(AscSeq(D)[i], CmpValue(AscSeq(D)[i], f[AscSeq(D)[i]]))]
                  IN {asc, Reverse(asc)} : f \in [D -> BOOLEAN]} :
           D \in {D \in SUBSET CmpDates : Cardinality(D) <= MaxCmpRows}}

\* What the cache may hold for the second fund and for the index: nothing
\* for either, or for each a table given latest-first with a row outside
\* the range.
CmpOtherNav == {Empty, <<NavRow(5, 30), NavRow(4, 15), NavRow(2, 10)>>}
CmpIndexTables ==
    {Empty, <<[time |-> 5, close_price |-> 80, symbol |-> "VN30"],
              [time |-> 4, close_price |-> 60, symbol |-> "VN30"],
              [time |-> 1, close_price |-> 40, symbol |-> "VN30"]>>}

\* An entry stored at second 0.
Stored(key, df) == IF df = Empty THEN <<>> ELSE (key :> [value |-> df, at |-> 0])

\* The cache after earlier passes: the listing, the holdings of F1, the NAV
\* history of F1, and what is held for F2 and for the index.
CmpCache(f1, f2, ix) ==
    (ListingKey("") :>
        [value |-> get_fund_listing_cached("", Answer(<<FundRow("F1"), FundRow("F2")>>)).value,
         at |-> 0])
    @@ (NavKey("F1") :> [value |-> f1, at |-> 0])
    @@ Stored(NavKey("F2"), f2)
    @@ Stored(IndexKey("VN30", 1, 4), ix)
    @@ [k \in {TopKey("F1"), IndustryKey("F1"), AssetKey("F1")} |->
          [value |-> Body(k, Answer(CHOOSE t \in
                        (IF k = TopKey("F1") THEN ProviderTop("F1")
                         ELSE IF k = IndustryKey("F1") THEN ProviderIndustry("F1")
                         ELSE ProviderAsset("F1")) : TRUE)).value,
           at |-> 0]]

\* The call log of a pass served from the cache, up to section `upto`.
CmpCalls(c, upto) ==
    LET hit(section, key) == Logged(section, cache_data(c, 0, key, CtorRaise).ret)
        all == <<hit("listing", ListingKey("")), hit("nav", NavKey("F1")),
                 hit("top", TopKey("F1")), hit("industry", IndustryKey("F1")),
                 hit("asset", AssetKey("F1"))>>
    IN SubSeq(all, 1, upto)

\* A pass that has just read the NAV history of F1 from the cache, or one
\* that has drawn the detail view with the default look-back and the three
\* holdings views and now stands at the fund-vs-fund comparison.
InitCmp ==
    \E f1 \in CmpNavTables, f2 \in CmpOtherNav, ix \in CmpIndexTables :
        /\ (f2 = Empty) = (ix = Empty)
        /\ now = 0
        /\ cache = CmpCache(f1, f2, ix)
        /\ ncalls = 0
        /\ cleared = {}
        /\ selected_type = ""
        /\ refresh_fund_btn = FALSE
        /\ fund_data = cache[ListingKey("")].value
        /\ selected_fund_shortname = "F1"
        /\ nav_report_df = f1
        /\ funds_view = NoView
        /\ indices_view = NoView
        /\ \/ /\ pc = "nav_view"
              /\ f2 = Empty /\ ix = Empty
              /\ nav_view = NoNavView
              /\ shown = [NothingShown EXCEPT !["listing"] = "table"]
              /\ calls = CmpCalls(cache, 2)
              /\ ret = cache_data(cache, 0, NavKey("F1"), CtorRaise).ret
           \/ /\ pc = "funds"
              /\ nav_view = nav_detail(f1, "Tat ca")
              /\ shown = [NothingShown EXCEPT !["listing"] = "table",
                                               !["nav"] = nav_view.msg,
                                               !["top"] = "table",
                                               !["industry"] = "table",
                                               !["asset"] = "table"]
              /\ calls = CmpCalls(cache, 5)
              /\ ret = cache_data(cache, 0, AssetKey("F1"), CtorRaise).ret

NextCmp ==
    \/ NavDetailView
    \/ FundsView
    \/ IndicesView

SpecCmp == InitCmp /\ [][NextCmp]_vars

\* ------------------------------------------------------------------ claims

ListingFn == "get_fund_listing_cached"

\* C1: when the upstream fetch raises inside a cached data-access call, the
\* caller gets an empty result and no entry is stored for that key, so the
\* next call with the same arguments goes upstream again.
C1_FetchFailureNotStored ==
    ret.outcome = "fetch_raise" =>
        /\ ~ret.raised
        /\ ret.value = Empty
        /\ ret.key \notin DOMAIN cache

\* The ttl the specification gives each data kind, in seconds.
C2_SpecTTL(fn) ==
    CASE fn = "get_fund_listing_cached" -> 30 * 60
      [] fn = "get_fund_nav_report_cached" -> 4 * 60 * 60
      [] fn \in {"get_fund_top_holdings_cached", "get_fund_industry_holdings_cached",
                 "get_fund_asset_holdings_cached"} -> 12 * 60 * 60
      [] fn = "get_market_index_history_cached" -> 2 * 60 * 60

\* C2: a call with key k returns the stored value without calling upstream
\* when an entry for k exists (a refresh has not just removed it) and its age
\* is below the ttl of its kind: 30 min listing, 4 h NAV, 12 h holdings, 2 h
\* index.  Otherwise it calls upstream, and the result it returns is stored
\* with the current time.
C2_Step ==
    ncalls' = ncalls + 1 =>
        LET k == ret'.key
            removed == k[1] = ListingFn /\ refresh_fund_btn'
            served == /\ k \in DOMAIN cache
                      /\ ~removed
                      /\ now - cache[k].at < C2_SpecTTL(k[1])
        IN IF served
           THEN /\ ~ret'.upstream
                /\ ~ret'.raised
                /\ ret'.value = cache[k].value
                /\ k \in DOMAIN cache'
                /\ cache'[k] = cache[k]
           ELSE /\ ret'.upstream
                /\ ~ret'.raised =>
                      /\ k \in DOMAIN cache'
                      /\ cache'[k] = [value |-> ret'.value, at |-> now]
C2_HitWithinTtlElseFetch == [][C2_Step]_vars

\* A NAV entry stored at second 1 is served at second 14400, one second
\* before its four hours are over.
C2_Witness ==
    /\ ret.outcome = "hit"
    /\ ret.key[1] = "get_fund_nav_report_cached"
    /\ now - cache[ret.key].at = 4 * 60 * 60 - 1

\* C3: a pass started by the refresh button removes every fund-listing
\* entry, whatever its category filter, before it reads the listing, so that
\* read goes upstream; the entries of the other five functions stay as they
\* are.
C3_Step ==
    (ncalls' = ncalls + 1 /\ ret'.key[1] = ListingFn /\ refresh_fund_btn') =>
        /\ ret'.upstream
        /\ \A k \in DOMAIN cache' : k[1] = ListingFn =>
              /\ k = ret'.key
              /\ cache'[k] = [value |-> ret'.value, at |-> now]
        /\ \A k \in DOMAIN cache : k[1] # ListingFn =>
              k \in DOMAIN cache' /\ cache'[k] = cache[k]
        /\ \A k \in DOMAIN cache' : k[1] # ListingFn => k \in DOMAIN cache
C3_RefreshClearsListingOnly == [][C3_Step]_vars

\* A refresh has removed the listing stored for another category filter,
\* still within its 30 minutes, and the read went upstream.
C3_Witness ==
    /\ refresh_fund_btn
    /\ ret.key[1] = ListingFn
    /\ ret.upstream
    /\ \E k \in cleared : k # ret.key
    /\ now < 30 * 60

\* A rebased cell is a number: not inf, not NaN.
IsFinite(x) == x.kind = "num"

\* C4: in both comparison views a fund or index whose first in-range value
\* is 0 is left out of the comparison set, so no rebased cell is infinite or
\* NaN from a division by a zero anchor.
C4_ZeroAnchorExcluded ==
    \A v \in {funds_view, indices_view} :
        \A i \in DOMAIN v.comparison_data_list :
            \A j \in DOMAIN v.comparison_data_list[i].rows :
                IsFinite(v.comparison_data_list[i].rows[j].value)

\* C5: every data-access call gives its caller an empty result when
\* reaching the provider fails at any step, building the client included;
\* no such failure leaves the call as an exception.
C5_FailureGivesEmpty ==
    ret.outcome \in {"ctor_raise", "fetch_raise"} =>
        /\ ~ret.raised
        /\ ret.value = Empty

\* A failure of one of the three classes arose in section s of this pass.
SectionFailed(s) ==
    \/ \E i \in DOMAIN calls :
          calls[i].section = s /\ calls[i].outcome \in {"ctor_raise", "fetch_raise"}
    \/ s = "nav" /\ nav_view.msg = "info_short"
    \/ s = "funds" /\ \/ funds_view.msg = "error_dates"
                      \/ funds_view.fund_with_insufficient_data # <<>>
    \/ s = "indices" /\ \/ indices_view.msg = "error_dates"
                        \/ indices_view.fund_with_insufficient_data # <<>>
                        \/ indices_view.index_with_insufficient_data # <<>>

\* C6: a fetch failure, a series of fewer than 2 points or an invalid date
\* range in one section is reported there and never keeps a later section
\* of the same pass from being computed and rendered.
C6_FailureStaysInItsSection ==
    pc = "done" =>
        \A i, j \in DOMAIN Sections :
            (i < j /\ SectionFailed(Sections[i])) => shown[Sections[j]] # ""

CallsOf(s) == SelectSeq(calls, LAMBDA c : c.section = s)

\* A view that went past its date check: it read, rebased or merged.
Computed(v) == v.msg \in {"info_select", "info_none", "warning_none", "chart"}

\* C7: a comparison view whose start date is after its end date shows its
\* validation message and nothing else: no NAV or index read, no rebasing,
\* no merge; the other view, with its own range, is computed when that
\* range is valid.
C7_InvalidRangeBlocksOnlyItsView ==
    /\ (funds_view.msg # "" /\ funds_view.start_date > funds_view.end_date) =>
          /\ funds_view.msg = "error_dates"
          /\ CallsOf("funds") = <<>>
          /\ funds_view.comparison_data_list = <<>>
          /\ funds_view.merged_df = <<>>
    /\ (indices_view.msg # "" /\ indices_view.start_date > indices_view.end_date) =>
          /\ indices_view.msg = "error_dates"
          /\ CallsOf("indices") = <<>>
          /\ indices_view.comparison_data_list = <<>>
          /\ indices_view.merged_df = <<>>
    /\ (pc = "done" /\ funds_view.msg # ""
          /\ funds_view.start_date > funds_view.end_date
          /\ indices_view.start_date <= indices_view.end_date) =>
              /\ Computed(indices_view)
              /\ (indices_view.funds # <<>> \/ indices_view.indices # <<>>) =>
                    CallsOf("indices") # <<>>
    /\ (indices_view.msg # "" /\ indices_view.start_date > indices_view.end_date
          /\ funds_view.start_date <= funds_view.end_date) =>
              /\ Computed(funds_view)
              /\ funds_view.funds # <<>> => CallsOf("funds") # <<>>

\* The fund view stopped at its dates with funds selected, and the index
\* view drew its chart.
C7_Witness ==
    /\ pc = "done"
    /\ funds_view.start_date > funds_view.end_date
    /\ funds_view.funds # <<>>
    /\ indices_view.msg = "chart"
    /\ CallsOf("indices") # <<>>

\* The look-back of each numeric choice, in days.
C8_Days(p) ==
    CASE p = "3 thang" -> 90 [] p = "6 thang" -> 180
      [] p = "12 thang" -> 365 [] p = "36 thang" -> 1095

NumericLookback ==
    nav_view.msg = "chart" /\ nav_view.period_selection # "Tat ca"

Ascending(df) == \A i, j \in DOMAIN df : i < j => df[i].date < df[j].date

\* |date of row i - (latest date - the look-back)|
C8_Dist(i) ==
    LET s == nav_view.nav_df_sorted
    IN Abs(s[i].date - (s[Len(s)].date - C8_Days(nav_view.period_selection)))

\* C8: for an ascending series of at least 2 points and a look-back of N
\* days, the window starts at the point whose date is nearest to (latest
\* date - N days); of two equally near points the earlier one is taken.
C8_NearestEarliest ==
    (NumericLookback /\ Ascending(nav_view.nav_df_sorted)) =>
        LET s == nav_view.nav_df_sorted
            k == nav_view.start_idx
        IN /\ Len(s) >= 2
           /\ k \in DOMAIN s
           /\ \A j \in DOMAIN s : C8_Dist(k) <= C8_Dist(j)
           /\ \A j \in DOMAIN s : j < k => C8_Dist(j) > C8_Dist(k)

\* Two points are equally near the target and the window starts at the
\* earlier one.
C8_Witness ==
    /\ NumericLookback
    /\ \E j \in DOMAIN nav_view.nav_df_sorted :
          j > nav_view.start_idx /\ C8_Dist(j) = C8_Dist(nav_view.start_idx)

\* g is ((b - a) / a) * 100 for a # 0.
IsGrowth(g, b, a) ==
    /\ g.kind = "num"
    /\ g.den > 0
    /\ g.num * a = (b - a) * 100 * g.den

\* C9: for a numeric look-back the growth shown is (latest value - value at
\* the window start) / value at the window start * 100, and 0 when the value
\* at the window start is 0; the charted series is the points from the
\* window start to the latest point, both included.
C9_WindowGrowth ==
    NumericLookback =>
        LET s == nav_view.nav_df_sorted
            k == nav_view.start_idx
            a == s[k].nav_per_unit
            b == s[Len(s)].nav_per_unit
            g == nav_view.selected_growth_pct
        IN /\ a # 0 => IsGrowth(g, b, a)
           /\ a = 0 => (g.kind = "num" /\ g.num = 0)
           /\ Len(nav_view.selected_data) = Len(s) - k + 1
           /\ \A i \in DOMAIN nav_view.selected_data :
                 nav_view.selected_data[i] = s[k + i - 1]

\* A window that starts after the first point, at a value of 0.
C9_Witness ==
    /\ NumericLookback
    /\ nav_view.start_idx > 1
    /\ nav_view.nav_df_sorted[nav_view.start_idx].nav_per_unit = 0
    /\ nav_view.nav_df_sorted[Len(nav_view.nav_df_sorted)].nav_per_unit # 0

\* The row of the history read with the earliest / the latest date.
EarliestRow(df) == df[CHOOSE i \in DOMAIN df : \A j \in DOMAIN df : df[i].date <= df[j].date]
LatestRow(df) == df[CHOOSE i \in DOMAIN df : \A j \in DOMAIN df : df[i].date >= df[j].date]

\* C10: with the look-back "all" the growth shown is (last value - first
\* value) / first value * 100 of the date-sorted series when the first
\* value is not 0, and the charted window is the whole sorted series.
C10_AllGrowth ==
    (nav_view.msg = "chart" /\ nav_view.period_selection = "Tat ca") =>
        LET first == EarliestRow(nav_report_df).nav_per_unit
            last == LatestRow(nav_report_df).nav_per_unit
        IN /\ first # 0 => IsGrowth(nav_view.selected_growth_pct, last, first)
           /\ Ascending(nav_view.selected_data)
           /\ Len(nav_view.selected_data) = Len(nav_report_df)
           /\ Range(nav_view.selected_data) = Range(nav_report_df)

\* "All" chosen on a history the provider gave latest-first, with a first
\* value that is not 0 and differs from the last.
C10_Witness ==
    /\ nav_view.msg = "chart"
    /\ nav_view.period_selection = "Tat ca"
    /\ ~Ascending(nav_report_df)
    /\ EarliestRow(nav_report_df).nav_per_unit # 0
    /\ EarliestRow(nav_report_df).nav_per_unit # LatestRow(nav_report_df).nav_per_unit

\* The two comparison views.
Views == {funds_view, indices_view}

\* The cell of a column on day d: its rebased value there, or unset.
C11_Cell(col, d) ==
    IF \E j \in DOMAIN col.rows : col.rows[j].date = d
    THEN col.rows[CHOOSE j \in DOMAIN col.rows : col.rows[j].date = d].value
    ELSE NaN

\* C11: the merged table of a comparison has exactly the union of its
\* columns' dates, ascending with one row per date, at least as many rows
\* as its longest column, one column per symbol, and in each cell that
\* symbol's rebased value of that day or nothing.
C11_MergeIsUnionOfDates ==
    \A v \in Views :
        v.comparison_data_list # <<>> =>
            LET cols == v.comparison_data_list
                m == v.merged_df
            IN /\ {m[i].date : i \in DOMAIN m} =
                    UNION {{cols[c].rows[j].date : j \in DOMAIN cols[c].rows} : c \in DOMAIN cols}
               /\ \A i, j \in DOMAIN m : i < j => m[i].date < m[j].date
               /\ \A c \in DOMAIN cols : Len(m) >= Len(cols[c].rows)
               /\ \A i \in DOMAIN m :
                     /\ DOMAIN m[i].vals = {cols[c].code : c \in DOMAIN cols}
                     /\ \A c \in DOMAIN cols :
                           m[i].vals[cols[c].code] = C11_Cell(cols[c], m[i].date)

\* The history a column was computed from, as the cache holds it.
SourceTable(v, col) ==
    IF col.code \in Funds
    THEN cache[NavKey(col.code)].value
    ELSE cache[IndexKey(col.code, v.start_date, v.end_date)].value

\* The value that history has on day d.
SourceValue(v, col, d) ==
    LET t == SourceTable(v, col)
    IN IF col.code \in Funds
       THEN t[CHOOSE i \in DOMAIN t : t[i].date = d].nav_per_unit
       ELSE t[CHOOSE i \in DOMAIN t : t[i].time = d].close_price

\* x is exactly (a / b) * 100, for b # 0.
IsRatio(x, a, b) ==
    /\ x.kind = "num"
    /\ x.den > 0
    /\ x.num * b = a * 100 * x.den

ColumnValues(col) == [i \in DOMAIN col.rows |-> col.rows[i].value]

\* The value a column is anchored on: its source value on its first day.
AnchorValue(v, col) == SourceValue(v, col, col.rows[1].date)

\* C12: a column rebased on a first value that is not 0 holds
\* value[i] / value[0] * 100 in every row, exactly 100 in its first row, and
\* is left as it is when it is rebased again.
C12_RebaseIsRatioAndIdempotent ==
    \A v \in Views :
        \A c \in DOMAIN v.comparison_data_list :
            LET col == v.comparison_data_list[c]
            IN AnchorValue(v, col) # 0 =>
                  /\ Len(col.rows) >= 2
                  /\ \A i \in DOMAIN col.rows :
                        IsRatio(col.rows[i].value,
                                SourceValue(v, col, col.rows[i].date), AnchorValue(v, col))
                  /\ col.rows[1].value = Num(100)
                  /\ rebase(ColumnValues(col)) = ColumnValues(col)

\* A column on a first value that is not 0 with a row that is not a whole
\* number: 14 on 11 is 1400/11.
C12_Witness ==
    \E c \in DOMAIN funds_view.comparison_data_list :
        LET col == funds_view.comparison_data_list[c]
        IN /\ AnchorValue(funds_view, col) # 0
           /\ \E i \in DOMAIN col.rows : col.rows[i].value.den > 1

\* A view whose loops over the selected symbols have run.
LoopsRan(v) == v.msg \in {"chart", "info_none", "warning_none"}

\* The number of rows the cached history of a symbol has inside the range
\* of view v.
PointsInRange(v, code) ==
    IF code \in Funds
    THEN LET t == cache[NavKey(code)].value
         IN Cardinality({i \in DOMAIN t : v.start_date <= t[i].date /\ t[i].date <= v.end_date})
    ELSE LET t == cache[IndexKey(code, v.start_date, v.end_date)].value
         IN Cardinality({i \in DOMAIN t : v.start_date <= t[i].time /\ t[i].time <= v.end_date})

HasHistory(v, code) ==
    IF code \in Funds THEN NavKey(code) \in DOMAIN cache
    ELSE IndexKey(code, v.start_date, v.end_date) \in DOMAIN cache

ColumnCodes(v) == {v.comparison_data_list[c].code : c \in DOMAIN v.comparison_data_list}

\* C13: no growth and no rebasing on fewer than 2 points.  The NAV detail
\* view of a one-row history shows only its "not enough data" line and
\* draws a chart only from 2 rows on; in both comparison views a fund or
\* index with fewer than 2 rows inside the range is named in the
\* insufficient-data list and has no column and no cell in the merged
\* table, every column has at least 2 rows, and the page shows no error.
C13_NoGrowthOnShortSeries ==
    /\ nav_view.msg # "" =>
          /\ Len(nav_report_df) = 1 =>
                /\ nav_view.msg = "info_short"
                /\ nav_view.selected_data = Empty
                /\ nav_view.start_idx = 0
          /\ nav_view.msg = "chart" => Len(nav_report_df) >= 2
    /\ \A v \in Views :
          LoopsRan(v) =>
             /\ \A c \in DOMAIN v.comparison_data_list :
                   Len(v.comparison_data_list[c].rows) >= 2
             /\ \A code \in Range(v.funds) \cup Range(v.indices) :
                   (HasHistory(v, code) /\ PointsInRange(v, code) < 2) =>
                      /\ code \in Range(v.fund_with_insufficient_data)
                                    \cup Range(v.index_with_insufficient_data)
                      /\ code \notin ColumnCodes(v)
                      /\ \A i \in DOMAIN v.merged_df : code \notin DOMAIN v.merged_df[i].vals
    /\ shown["page"] # "error"

\* F1 has 2 rows or more but fewer than 2 inside the range: it is named as
\* insufficient while the chart is drawn from the other fund.
C13_Witness ==
    /\ funds_view.msg = "chart"
    /\ Len(cache[NavKey("F1")].value) >= 2
    /\ PointsInRange(funds_view, "F1") < 2
    /\ "F1" \in Range(funds_view.fund_with_insufficient_data)

\* C14: once a call for an operation and its arguments has failed upstream
\* in a pass, no later call of the pass sends the same operation with the
\* same arguments upstream again.
C14_NoSecondUpstreamCallAfterFailure ==
    \A i, j \in DOMAIN calls :
        (/\ i < j
         /\ calls[i].key = calls[j].key
         /\ calls[i].outcome \in {"ctor_raise", "fetch_raise"}) => ~calls[j].upstream

\* The percentage columns of the listing the model carries.
PctColumns == {"nav_change_12m", "management_fee"}

\* What the provider gave for a cell of the listing.
RawCell(row, col) == FundRow(row.short_name)[col]

\* A listing cell shows the dash exactly for a missing value, and otherwise
\* the value to the nearest hundredth.
ListingCellOk(row, col) ==
    LET raw == RawCell(row, col)
        cell == row[col]
    IN /\ cell.text \in {"dash", "pct"}
       /\ (cell.text = "dash") = (raw.kind = "nan")
       /\ cell.text = "pct" =>
             /\ raw.kind = "num"
             /\ 2 * Abs(100 * raw.num - cell.hundredths * raw.den) <= raw.den

\* The value the growth of the detail view is measured from.
GrowthAnchor == nav_view.nav_df_sorted[nav_view.start_idx].nav_per_unit
GrowthLatest == nav_view.nav_df_sorted[Len(nav_view.nav_df_sorted)].nav_per_unit

DaysInRange(v, col) ==
    LET t == SourceTable(v, col)
        day(i) == IF col.code \in Funds THEN t[i].date ELSE t[i].time
    IN {day(i) : i \in {i \in DOMAIN t : v.start_date <= day(i) /\ day(i) <= v.end_date}}

Latest(S) == CHOOSE x \in S : \A y \in S : x >= y

\* C16: windows and anchors are taken from date-sorted series.  The detail
\* view works on the history sorted ascending: its window is a run of that
\* sorted series ending at the row of the latest date.  In both comparison
\* views a column is ascending, starts at the earliest in-range day of its
\* source, ends at the latest one, and is scaled on the value of that
\* earliest day.
C16_SortedBeforeWindowAndAnchor ==
    /\ nav_view.msg = "chart" =>
          LET sorted == nav_view.nav_df_sorted
              window == nav_view.selected_data
          IN /\ Ascending(sorted)
             /\ Range(sorted) = Range(nav_report_df)
             /\ Ascending(window)
             /\ window # Empty
             /\ window[Len(window)] = LatestRow(nav_report_df)
             /\ GrowthLatest = LatestRow(nav_report_df).nav_per_unit
    /\ \A v \in Views :
          \A c \in DOMAIN v.comparison_data_list :
             LET col == v.comparison_data_list[c]
                 days == DaysInRange(v, col)
                 anchor == SourceValue(v, col, Min(days))
             IN /\ \A i, j \in DOMAIN col.rows : i < j => col.rows[i].date < col.rows[j].date
                /\ {col.rows[i].date : i \in DOMAIN col.rows} = days
                /\ col.rows[1].date = Min(days)
                /\ col.rows[Len(col.rows)].date = Latest(days)
                /\ anchor # 0 =>
                      \A i \in DOMAIN col.rows :
                          IsRatio(col.rows[i].value,
                                  SourceValue(v, col, col.rows[i].date), anchor)

\* The cached history of F1 is latest-first and the chart of the fund
\* comparison holds its column, scaled on a value the first row of the
\* history does not have.
C16_Witness ==
    /\ funds_view.msg = "chart"
    /\ \E c \in DOMAIN funds_view.comparison_data_list :
          LET col == funds_view.comparison_data_list[c]
              t == cache[NavKey("F1")].value
          IN /\ col.code = "F1"
             /\ ~Ascending(t)
             /\ AnchorValue(funds_view, col) # 0
             /\ AnchorValue(funds_view, col) # t[1].nav_per_unit

\* C17: the range of a comparison view keeps the points dated on its start
\* and end days; each column is 100 on the earliest in-range day of its
\* symbol and value / value of that day * 100 on every later one; no day
\* outside the range appears in the merged table.
C17_InclusiveRangeAnchoredAt100 ==
    \A v \in Views :
        /\ \A c \in DOMAIN v.comparison_data_list :
              LET col == v.comparison_data_list[c]
                  days == DaysInRange(v, col)
                  anchor == SourceValue(v, col, Min(days))
              IN /\ {col.rows[i].date : i \in DOMAIN col.rows} = days
                 /\ col.rows[1].date = Min(days)
                 /\ col.rows[1].value = Num(100)
                 /\ \A i \in DOMAIN col.rows :
                       IsRatio(col.rows[i].value,
                               SourceValue(v, col, col.rows[i].date), anchor)
        /\ \A i \in DOMAIN v.merged_df :
              v.start_date <= v.merged_df[i].date /\ v.merged_df[i].date <= v.end_date

\* The argument tuples a cached function can be called with.
ArgsOf(fn) ==
    IF fn = "get_fund_listing_cached" THEN {<<t>> : t \in fund_type_options}
    ELSE IF fn = "get_market_index_history_cached"
    THEN {<<x, s, e>> : x \in market_indices, s \in Dates, e \in Dates}
    ELSE {<<f>> : f \in Funds}

\* The key the program builds for a call of fn with arguments a.
KeyOf(fn, a) ==
    CASE fn = "get_fund_listing_cached" -> ListingKey(a[1])
      [] fn = "get_fund_nav_report_cached" -> NavKey(a[1])
      [] fn = "get_fund_top_holdings_cached" -> TopKey(a[1])
      [] fn = "get_fund_industry_holdings_cached" -> IndustryKey(a[1])
      [] fn = "get_fund_asset_holdings_cached" -> AssetKey(a[1])
      [] fn = "get_market_index_history_cached" -> IndexKey(a[1], a[2], a[3])

\* What the provider can answer to fn called with arguments a.
ProviderTables(fn, a) ==
    CASE fn = "get_fund_listing_cached" -> ProviderListing(a[1])
      [] fn = "get_fund_nav_report_cached" -> ProviderNav(a[1])
      [] fn = "get_fund_top_holdings_cached" -> ProviderTop(a[1])
      [] fn = "get_fund_industry_holdings_cached" -> ProviderIndustry(a[1])
      [] fn = "get_fund_asset_holdings_cached" -> ProviderAsset(a[1])
      [] fn = "get_market_index_history_cached" -> ProviderIndex(a[1], a[2], a[3])

\* The values a call of fn with arguments a returns after going upstream.
ProducedFor(fn, a) ==
    {Body(KeyOf(fn, a), o).value : o \in Outcomes(ProviderTables(fn, a))}

\* Key k stands for exactly one argument tuple, and value came from an
\* upstream call made with it.
FromOwnArguments(k, value) ==
    LET args == {a \in ArgsOf(k[1]) : KeyOf(k[1], a) = k}
    IN /\ Cardinality(args) = 1
       /\ \A a \in args : value \in ProducedFor(k[1], a)

\* C18: entries are keyed by the full arguments.  Every stored value, and
\* every value a call returns, was produced by an upstream call with
\* exactly the arguments of its key: an index history is never served for
\* another symbol or another date range, a NAV history never for another
\* fund.
C18_KeyedByFullArguments ==
    /\ \A k \in DOMAIN cache : FromOwnArguments(k, cache[k].value)
    /\ (ret.outcome # "none" /\ ~ret.raised) => FromOwnArguments(ret.key, ret.value)

\* With VNINDEX of days 1..3 in the cache and within its ttl, the call for
\* days 2..3 went upstream and stored its own, different table.
C18_Witness ==
    /\ IndexKey("VNINDEX", 1, 3) \in DOMAIN cache
    /\ now - cache[IndexKey("VNINDEX", 1, 3)].at < 2 * 60 * 60
    /\ ret.key = IndexKey("VNINDEX", 2, 3)
    /\ ret.upstream
    /\ ret.value # Empty
    /\ cache[ret.key].value = ret.value
    /\ cache[IndexKey("VNINDEX", 1, 3)].value # ret.value

\* How often x occurs in a sequence.
Occurrences(seq, x) == Cardinality({i \in DOMAIN seq : seq[i] = x})

ColumnCodeSeq(v) == [c \in DOMAIN v.comparison_data_list |-> v.comparison_data_list[c].code]

\* The section a view is drawn in.
SectionOf(v) == IF v = funds_view THEN "funds" ELSE "indices"

\* C19: after the loop over the selected funds every selected fund has
\* exactly one column or exactly one entry in the insufficient-data list,
\* never both and never neither, and every selected fund was read: a read
\* that raises does not end the loop.
C19_EachFundInExactlyOneList ==
    \A v \in Views :
        LoopsRan(v) =>
            \A f \in Range(v.funds) :
                /\ Occurrences(ColumnCodeSeq(v), f)
                      + Occurrences(v.fund_with_insufficient_data, f) = 1
                /\ \E i \in DOMAIN calls :
                      calls[i].section = SectionOf(v) /\ calls[i].key = NavKey(f)

\* The read of F1, the first selected fund, raised in the fund comparison:
\* F1 is listed as insufficient and F2, read after it, has its column.
C19_Witness ==
    /\ funds_view.msg = "chart"
    /\ \E i \in DOMAIN calls :
          /\ calls[i].section = "funds"
          /\ calls[i].key = NavKey("F1")
          /\ calls[i].outcome = "ctor_raise"
    /\ funds_view.fund_with_insufficient_data = <<"F1">>
    /\ ColumnCodeSeq(funds_view) = <<"F2">>

\* Days between the first and the latest point of the sorted series.
C20_Span ==
    LET s == nav_view.nav_df_sorted IN s[Len(s)].date - s[1].date

\* What the "all" selection shows for the same series.
C20_All == nav_detail(nav_report_df, "Tat ca")

\* C20: for a sorted series of at least 2 points and a look-back of N days
\* with N at least the number of days between the first and the latest
\* point, the window starts at the first point, and the growth and the
\* charted window are those of the "all" selection.
C20_LongLookbackIsAll ==
    (NumericLookback /\ C8_Days(nav_view.period_selection) >= C20_Span) =>
        /\ Len(nav_view.nav_df_sorted) >= 2
        /\ nav_view.start_idx = 1
        /\ nav_view.selected_data = nav_view.nav_df_sorted
        /\ nav_view.selected_data = C20_All.selected_data
        /\ nav_view.selected_growth_pct = C20_All.selected_growth_pct

\* A look-back of exactly the span of a series of three or more points
\* whose first and latest values differ and are not 0.
C20_Witness ==
    /\ NumericLookback
    /\ C8_Days(nav_view.period_selection) = C20_Span
    /\ Len(nav_view.nav_df_sorted) >= 3
    /\ nav_view.start_idx = 1
    /\ nav_view.nav_df_sorted[1].nav_per_unit # 0
    /\ nav_view.nav_df_sorted[1].nav_per_unit
          # nav_view.nav_df_sorted[Len(nav_view.nav_df_sorted)].nav_per_unit
    /\ nav_view.selected_growth_pct = C20_All.selected_growth_pct

====
